---- MODULE Spec2Model ----
(***************************************************************************)
(* BookCritic front end: the session handling of the browser client.       *)
(*                                                                         *)
(* The model covers the HTTP wrapper (services/api.ts), the auth service   *)
(* (services/auth-service.ts), the auth context (context/auth-context.tsx) *)
(* and the callers that decide when their handlers run: the login and      *)
(* register pages, the profile settings page with its delayed logout, the  *)
(* route guard and the browser (page loads, localStorage, location).       *)
(*                                                                         *)
(* Strings the code searches with String.prototype.includes are sequences  *)
(* of characters, so that the search is computed and not assumed.          *)
(* Effects run once per mount (production build of React).                 *)
(***************************************************************************)
EXTENDS Integers, Sequences, FiniteSets, Bags, TLC

\* ------------------------------------------------------------- bounds ---
\* generic API calls (queries, mutations) in flight at the same time
MaxInflight == 1
\* login/register/validate calls in flight at the same time
MaxAuthCalls == 1
\* review texts: at most MaxPad spaces on either side of at most MaxText letters
MaxPad == 1
MaxText == 11
\* pages of a list the user can ask for
MaxPage == 3
\* favorites the backend returns
MaxFavorites == 11
\* metrics web-vitals reports in a page load
MaxReports == 3

\* ------------------------------------------------------------ strings ---
P_root == <<"/">>
P_login == <<"/", "l", "o", "g", "i", "n">>
P_register == <<"/", "r", "e", "g", "i", "s", "t", "e", "r">>
P_settings == <<"/", "p", "r", "o", "f", "i", "l", "e", "/", "s", "e", "t", "t", "i", "n", "g", "s">>

U_login == <<"/", "a", "u", "t", "h">> \o P_login
U_register == <<"/", "a", "u", "t", "h">> \o P_register
U_validate == <<"/", "a", "u", "t", "h", "/", "v", "a", "l", "i", "d", "a", "t", "e">>
U_changePassword == <<"/", "u", "s", "e", "r", "s", "/", "c", "h", "a", "n", "g", "e", "-", "p", "a", "s", "s", "w", "o", "r", "d">>
U_books == <<"/", "b", "o", "o", "k", "s">>

P_admin == <<"/", "a", "d", "m", "i", "n">>

\* the paths of the client router the model visits
ClientPaths == {P_root, P_login, P_register, P_settings, P_admin}

\* String.prototype.includes
Includes(s, sub) ==
  \E i \in 0..(Len(s) - Len(sub)) : SubSeq(s, i + 1, i + Len(sub)) = sub

\* ------------------------------------------------------------- values ---
\* null / undefined / a missing localStorage item
Null == "null"
Tokens == {"t1", "t2"}

NullUser == [id |-> 0, role |-> "none"]
Users == {[id |-> 1, role |-> "user"], [id |-> 2, role |-> "admin"]}

\* JSON text of a user record, and a text that is not JSON
JSONstringify(u) == <<"{", u.id, u.role, "}">>
Malformed == <<"{">>
NoItem == <<>>
IsJSON(s) == Len(s) = 4 /\ s[1] = "{" /\ s[4] = "}"
JSONparse(s) == [id |-> s[2], role |-> s[3]]

\* what localStorage can hold under the keys token and user on a page load
StorageContents ==
  [token : Tokens \cup {Null},
   user : {NoItem, Malformed} \cup {JSONstringify(u) : u \in Users}]

\* HTTP status of a failed call; NoStatus: no response was received
NoStatus == 0
Statuses == {400, 401, 409, 500}

NoMessage == "<no message>"
InvalidCredentials == "Invalid email or password. Please try again."
GenericError == "An error occurred. Please try again."
LoginFailed == "Login failed. Please try again."
AccountExists == "An account with this email already exists."
InvalidRegistration == "Invalid registration data. Please check your information."
AuthenticationFailed == "Authentication failed. Please try again."
RegistrationFailed == "Registration failed. Please try again."
ServerMessage == "message of the response body"
TypeErrorMessage == "Cannot create property 'statusCode' on string"

\* bodies of an error response: none (empty), a JSON object with or without
\* a message field, a text that is not JSON (axios leaves it a string)
BodyNone == [kind |-> "none", message |-> NoMessage]
BodyObject == [kind |-> "object", message |-> ServerMessage]
BodyObjectNoMessage == [kind |-> "object", message |-> NoMessage]
BodyText == [kind |-> "text", message |-> NoMessage]
Bodies == {BodyNone, BodyObject, BodyObjectNoMessage, BodyText}

\* a failed response: status and body; the network failure has neither
Failures ==
  [status : Statuses, body : Bodies] \cup {[status |-> NoStatus, body |-> BodyNone]}

\* AxiosError.message
AxiosMessage(status) ==
  CASE status = NoStatus -> "Network Error"
    [] status = 400 -> "Request failed with status code 400"
    [] status = 401 -> "Request failed with status code 401"
    [] status = 409 -> "Request failed with status code 409"
    [] OTHER -> "Request failed with status code 500"

\* a rejection value: its message and statusCode properties; isError marks
\* an Error object, which has a message and no statusCode property
Rejection(m, s) == [message |-> m, statusCode |-> s, isError |-> FALSE]
TypeErrorValue == [message |-> TypeErrorMessage, statusCode |-> NoStatus, isError |-> TRUE]
NoRejection == [message |-> NoMessage, statusCode |-> NoStatus, isError |-> FALSE]

\* ------------------------------------------------------ HTTP wrapper ---
NoHeader == <<>>

\* the interceptor without its test of the token
RequestInterceptor_Always(storedToken) == <<"Bearer", storedToken>>

\* request interceptor: the Authorization header of a request
RequestInterceptor(storedToken) ==
  IF storedToken # Null THEN <<"Bearer", storedToken>> ELSE NoHeader

IsAuthRequest(url) == Includes(url, U_login) \/ Includes(url, U_register)
IsAuthPage(path) == Includes(path, P_login) \/ Includes(path, P_register)

\* the interceptor without its test of the current page
SessionExpired_AnyPage(url, status, path) ==
  status = 401 /\ ~IsAuthRequest(url)

\* response interceptor: does this failure end the session
SessionExpired(url, status, path) ==
  status = 401 /\ ~IsAuthRequest(url) /\ ~IsAuthPage(path)

\* request() rejecting with the fallback text whenever the response has no body
RequestReject_FallbackFirst(url, f) ==
  IF f.status # NoStatus /\ f.body.kind # "none"
  THEN IF f.body.kind = "text"
       THEN TypeErrorValue
       ELSE IF IsAuthRequest(url) /\ f.status = 401
            THEN Rejection(InvalidCredentials, 401)
            ELSE Rejection(f.body.message, f.status)
  ELSE Rejection(GenericError, f.status)

\* request(): the value a failed call rejects with
RequestReject(url, f) ==
  IF f.status # NoStatus /\ f.body.kind # "none"
  THEN IF f.body.kind = "text"
       THEN TypeErrorValue
       ELSE IF IsAuthRequest(url) /\ f.status = 401
            THEN Rejection(InvalidCredentials, 401)
            ELSE Rejection(f.body.message, f.status)
  ELSE Rejection(IF AxiosMessage(f.status) # "" THEN AxiosMessage(f.status) ELSE GenericError,
                 f.status)

\* AuthService.login: the value a failed login rejects with
LoginReject(e) ==
  IF ~e.isError /\ e.statusCode = 401
  THEN Rejection(InvalidCredentials, 401)
  ELSE IF e.message # NoMessage
       THEN Rejection(e.message, IF e.isError THEN NoStatus ELSE e.statusCode)
       ELSE Rejection(LoginFailed, 500)

\* AuthService.register: the value a failed registration rejects with
RegisterReject(e) ==
  IF ~e.isError /\ e.statusCode = 409 THEN Rejection(AccountExists, 409)
  ELSE IF ~e.isError /\ e.statusCode = 400 THEN Rejection(InvalidRegistration, 400)
  ELSE IF ~e.isError /\ e.statusCode = 401 THEN Rejection(AuthenticationFailed, 401)
  ELSE IF e.message # NoMessage
       THEN Rejection(e.message, IF e.isError THEN NoStatus ELSE e.statusCode)
       ELSE Rejection(RegistrationFailed, 500)

\* -------------------------------------------------------------- state ---
VARIABLES
  storage,       \* localStorage: the items under the keys token and user
  state,         \* AuthState of the AuthProvider
  initPc,        \* position of initAuth: start, validating, done, threw
  validateCalls, \* calls of AuthService.validateToken since the page load
  inflight,      \* HTTP calls sent and not yet answered, a bag
  pathname,      \* window.location.pathname
  navPending,    \* window.location.href was set to /login, document not yet replaced
  logoutTimer,   \* the setTimeout of the profile settings page is armed
  handler,       \* the handler of the auth context invoked last
  last,          \* the step taken last and what it produced
  locationFrom,  \* location.state.from.pathname of the router, NoItem when unset
  loginError,    \* the error state of the mounted LoginPage, NoMessage when empty
  reviewForm,    \* the state of a mounted ReviewForm
  listPage,      \* the list page or service function that ran last and its HTTP requests
  favoritesPage, \* the state of a mounted FavoritesPage and the data of its query
  usersPage,     \* the state of a mounted AdminUsersPage
  collector,     \* the metrics of performance-monitoring.ts and what its callers hold
  lazyLoad       \* the state of a mounted LazyLoad and what its observer delivered

\* the metrics collector and the LazyLoad component, which no page uses
widgets == <<collector, lazyLoad>>

\* the components outside the session handling
pages == <<reviewForm, listPage, favoritesPage, usersPage, widgets>>

vars == <<storage, state, initPc, validateCalls, inflight, pathname, navPending,
          logoutTimer, handler, last, locationFrom, loginError, reviewForm, listPage,
          favoritesPage, usersPage, collector, lazyLoad>>

initialState == [user |-> NullUser, token |-> Null, isAuthenticated |-> FALSE, isLoading |-> TRUE]
Anonymous == [initialState EXCEPT !.isLoading = FALSE]
Authenticated(u, t) == [user |-> u, token |-> t, isAuthenticated |-> TRUE, isLoading |-> FALSE]

\* setAuthData that stores the token and forgets the user
setAuthData_TokenOnly(t, u) == [token |-> t, user |-> NoItem]

\* AuthService.setAuthData / clearAuthData / getAuthData
setAuthData(t, u) == [token |-> t, user |-> JSONstringify(u)]
clearAuthData == [token |-> Null, user |-> NoItem]
getAuthDataThrows(st) == st.user # NoItem /\ ~IsJSON(st.user)
getAuthData(st) ==
  [token |-> st.token, user |-> IF st.user # NoItem THEN JSONparse(st.user) ELSE NullUser]

\* the record of the step taken last
NoFailure == [status |-> NoStatus, body |-> BodyNone]
NoData == [token |-> Null, user |-> NullUser]
Event(op, url, hdr, ok, f, path, val, data) ==
  [op |-> op, url |-> url, hdr |-> hdr, ok |-> ok, failure |-> f, path |-> path,
   val |-> val, data |-> data]
Step(op) == Event(op, <<>>, NoHeader, TRUE, NoFailure, pathname, NoRejection, NoData)

\* calls in flight: token is the token initAuth read before it called validateToken
AuthPurposes == {"validate", "login", "register"}
ApiPurposes == {"fetch", "changePassword"}
\* from and mounted belong to a login call: where the LoginPage that submitted
\* goes on success, and whether that LoginPage is still mounted
Request(purpose, url, validated) ==
  [purpose |-> purpose, url |-> url, token |-> validated, from |-> NoItem, mounted |-> FALSE]
InFlight(purposes) ==
  BagCardinality([r \in {x \in BagToSet(inflight) : x.purpose \in purposes} |-> inflight[r]])
Pending(purposes) == {r \in BagToSet(inflight) : r.purpose \in purposes}

\* api(config): the request interceptor adds the header and the call is sent
Sent(req) ==
  Event("send", req.url, RequestInterceptor(storage.token), TRUE, NoFailure, pathname,
        NoRejection, NoData)
Answered(op, req, ok, f, val, data) == Event(op, req.url, NoHeader, ok, f, pathname, val, data)

\* the interceptor removing the token and leaving the user
InterceptedStorage_KeepsUser(url, f) ==
  IF SessionExpired(url, f.status, pathname) THEN [storage EXCEPT !.token = Null] ELSE storage

\* response interceptor, error branch: localStorage and location afterwards
InterceptedStorage(url, f) ==
  IF SessionExpired(url, f.status, pathname) THEN clearAuthData ELSE storage
InterceptedNav(url, f) == navPending \/ SessionExpired(url, f.status, pathname)

\* ------------------------------------------------------------- router ---
\* the routes of AppRoutes: path, element, and the ProtectedRoute around it
Routes ==
  {[element |-> "LoginPage", guard |-> "public",
    path |-> <<"/", "l", "o", "g", "i", "n">>],
   [element |-> "RegisterPage", guard |-> "public",
    path |-> <<"/", "r", "e", "g", "i", "s", "t", "e", "r">>],
   [element |-> "ForgotPasswordPage", guard |-> "public",
    path |-> <<"/", "f", "o", "r", "g", "o", "t", "-", "p", "a", "s", "s", "w", "o", "r", "d">>],
   [element |-> "ResetPasswordPage", guard |-> "public",
    path |-> <<"/", "r", "e", "s", "e", "t", "-", "p", "a", "s", "s", "w", "o", "r", "d">>],
   [element |-> "ProfilePage", guard |-> "authenticated",
    path |-> <<"/", "p", "r", "o", "f", "i", "l", "e">>],
   [element |-> "ProfileSettingsPage", guard |-> "authenticated",
    path |-> <<"/", "p", "r", "o", "f", "i", "l", "e", "/", "s", "e", "t", "t", "i", "n", "g", "s">>],
   [element |-> "ReadingListPage", guard |-> "authenticated",
    path |-> <<"/", "p", "r", "o", "f", "i", "l", "e", "/", "r", "e", "a", "d", "i", "n", "g", "-", "l", "i", "s", "t">>],
   [element |-> "UserReviewsPage", guard |-> "authenticated",
    path |-> <<"/", "p", "r", "o", "f", "i", "l", "e", "/", "r", "e", "v", "i", "e", "w", "s">>],
   [element |-> "FavoritesPage", guard |-> "authenticated",
    path |-> <<"/", "f", "a", "v", "o", "r", "i", "t", "e", "s">>],
   [element |-> "ReviewEditorPage", guard |-> "authenticated",
    path |-> <<"/", "b", "o", "o", "k", "s", "/", ":", "b", "o", "o", "k", "I", "d", "/", "r", "e", "v", "i", "e", "w">>],
   [element |-> "ReviewEditorPage", guard |-> "authenticated",
    path |-> <<"/", "r", "e", "v", "i", "e", "w", "s", "/", ":", "r", "e", "v", "i", "e", "w", "I", "d", "/", "e", "d", "i", "t">>],
   [element |-> "AdminDashboard", guard |-> "admin",
    path |-> <<"/", "a", "d", "m", "i", "n">>],
   [element |-> "AdminBooksPage", guard |-> "admin",
    path |-> <<"/", "a", "d", "m", "i", "n", "/", "b", "o", "o", "k", "s">>],
   [element |-> "AdminUsersPage", guard |-> "admin",
    path |-> <<"/", "a", "d", "m", "i", "n", "/", "u", "s", "e", "r", "s">>],
   [element |-> "AdminReviewsPage", guard |-> "admin",
    path |-> <<"/", "a", "d", "m", "i", "n", "/", "r", "e", "v", "i", "e", "w", "s">>],
   [element |-> "PerformanceDashboard", guard |-> "admin",
    path |-> <<"/", "a", "d", "m", "i", "n", "/", "p", "e", "r", "f", "o", "r", "m", "a", "n", "c", "e">>],
   [element |-> "HomePage", guard |-> "public",
    path |-> <<"/">>],
   [element |-> "BooksPage", guard |-> "public",
    path |-> <<"/", "b", "o", "o", "k", "s">>],
   [element |-> "BookDetailPage", guard |-> "public",
    path |-> <<"/", "b", "o", "o", "k", "s", "/", ":", "i", "d">>],
   [element |-> "BooksPage", guard |-> "public",
    path |-> <<"/", "b", "o", "o", "k", "s", "/", "s", "e", "a", "r", "c", "h">>],
   [element |-> "HomePage", guard |-> "public",
    path |-> <<"/", "b", "o", "o", "k", "s", "/", "t", "o", "p", "-", "r", "a", "t", "e", "d">>],
   [element |-> "HomePage", guard |-> "public",
    path |-> <<"/", "b", "o", "o", "k", "s", "/", "n", "e", "w", "-", "r", "e", "l", "e", "a", "s", "e", "s">>],
   [element |-> "404 Page Not Found", guard |-> "public",
    path |-> <<"*">>]}

\* a path of the browser that a route matches: a parameter :name has the value name
Visit(path) == SelectSeq(path, LAMBDA c : c # ":")
\* the routes behind ProtectedRoute isAllowed={isAuthenticated}
ProtectedPaths == {Visit(r.path) : r \in {x \in Routes : x.guard = "authenticated"}}
\* the routes behind ProtectedRoute isAllowed={isAuthenticated && isAdmin}
AdminPaths == {Visit(r.path) : r \in {x \in Routes : x.guard = "admin"}}
\* one path for every route of the table, and one that only path="*" matches
AllPaths == {Visit(r.path) : r \in Routes} \cup {<<"/", "n", "o", "p", "e">>}

\* the segments of a path
RECURSIVE SegmentsFrom(_, _, _)
SegmentsFrom(s, i, cur) ==
  IF i > Len(s)
  THEN IF cur = <<>> THEN <<>> ELSE <<cur>>
  ELSE IF s[i] = "/"
       THEN (IF cur = <<>> THEN <<>> ELSE <<cur>>) \o SegmentsFrom(s, i + 1, <<>>)
       ELSE SegmentsFrom(s, i + 1, Append(cur, s[i]))

\* a route path matches a path segment by segment; :name matches any segment
Matches(pattern, segs) ==
  /\ Len(pattern) = Len(segs)
  /\ \A i \in 1..Len(pattern) : pattern[i][1] = ":" \/ pattern[i] = segs[i]

\* the route paths of the table, segment by segment
Patterns == [r \in Routes |-> SegmentsFrom(r.path, 1, <<>>)]

\* <Routes>: the route of a path; a route without parameters outranks one with
\* parameters and path="*" takes what nothing else matches
MatchRoute(path) ==
  IF \E r \in Routes : r.path = path
  THEN CHOOSE r \in Routes : r.path = path
  ELSE LET segs == SegmentsFrom(path, 1, <<>>)
           hits == {r \in Routes : Matches(Patterns[r], segs)}
       IN IF hits # {} THEN CHOOSE r \in hits : TRUE ELSE CHOOSE r \in Routes : r.path = <<"*">>

\* what the router shows: an element (the spinner is one), or
\* <Navigate to state={{ from }} replace />
Renders(element) == [element |-> element, to |-> NoItem, from |-> NoItem]
NavigateTo(to, from) == [element |-> "Navigate", to |-> to, from |-> from]

\* isAdmin granted to every signed-in user
isAdmin_AnyUser(st) == st.user # NullUser

\* isAdmin of the auth context
isAdmin(st) == st.user.role = "admin"

\* AdminDashboard: its own test of isAdmin
AdminDashboard(st) ==
  IF ~isAdmin(st) THEN "You do not have permission to access this page." ELSE "AdminDashboard"

\* ProtectedRoute rendering its child whatever isAllowed says
ProtectedRouteElement_Open(isAllowed, redirectPath, location, child) == Renders(child)

\* ProtectedRoute
ProtectedRouteElement(isAllowed, redirectPath, location, child) ==
  IF ~isAllowed THEN NavigateTo(redirectPath, location) ELSE Renders(child)

\* AppRoutes
AppRoutes(st, path) ==
  IF st.isLoading
  THEN Renders("Spinner")
  ELSE LET r == MatchRoute(path)
           child == IF r.element = "AdminDashboard" THEN AdminDashboard(st) ELSE r.element
       IN CASE r.guard = "authenticated" ->
                 ProtectedRouteElement(st.isAuthenticated, P_login, path, child)
            [] r.guard = "admin" ->
                 ProtectedRouteElement(st.isAuthenticated /\ isAdmin(st), P_root, path, child)
            [] OTHER -> Renders(child)

\* a render after the step: a LoginPage that stays mounted keeps its error, one
\* that is unmounted loses it and one that is mounted starts with error = ''
Rerender ==
  loginError' = IF /\ AppRoutes(state, pathname).element = "LoginPage"
                   /\ AppRoutes(state', pathname').element = "LoginPage"
                THEN loginError
                ELSE NoMessage

\* a JavaScript number that is not NaN
Num(n) == [nan |-> FALSE, n |-> n]

\* the components outside the session handling, not mounted
Idle ==
  [reviewForm |-> [rating |-> 0, content |-> <<>>, ratingError |-> NoMessage,
                   contentError |-> NoMessage, op |-> "none", onSubmit |-> <<>>],
   listPage |-> [kind |-> "none", page |-> Num(1), size |-> 0, requests |-> <<>>],
   favoritesPage |-> [page |-> 1, data |-> <<>>, op |-> "none"],
   usersPage |-> [isModalOpen |-> FALSE,
                  formData |-> [id |-> 0, displayName |-> "", email |-> "", role |-> "user"],
                  op |-> "none", user |-> 0, threw |-> FALSE],
   collector |-> [metrics |-> [n \in {} |-> 0], reported |-> <<>>, held |-> [n \in {} |-> 0],
                  op |-> "none"],
   lazyLoad |-> [mounted |-> FALSE, keepMounted |-> TRUE, isVisible |-> FALSE,
                 hasBeenVisible |-> FALSE, observing |-> FALSE, entry |-> "none",
                 intersected |-> FALSE]]

Init ==
  /\ storage \in StorageContents
  /\ state = initialState
  /\ initPc = "start"
  /\ validateCalls = 0
  /\ inflight = EmptyBag
  /\ pathname \in ClientPaths
  /\ navPending = FALSE
  /\ logoutTimer = FALSE
  /\ handler = "none"
  /\ last = Event("load", <<>>, NoHeader, TRUE, NoFailure, pathname, NoRejection, NoData)
  /\ locationFrom = NoItem
  /\ loginError = NoMessage
  /\ reviewForm = Idle.reviewForm
  /\ listPage = Idle.listPage
  /\ favoritesPage = Idle.favoritesPage
  /\ usersPage = Idle.usersPage
  /\ collector = Idle.collector
  /\ lazyLoad = Idle.lazyLoad

\* ------------------------------------------------------- auth context ---
\* initAuth up to its await (or its end, when nothing is stored)
InitAuthStart ==
  /\ initPc = "start"
  /\ IF getAuthDataThrows(storage)
     THEN /\ initPc' = "threw"
          /\ last' = Step("initAuthThrew")
          /\ UNCHANGED <<state, validateCalls, inflight>>
     ELSE LET data == getAuthData(storage) IN
          IF data.token # Null /\ data.user # NullUser
          THEN /\ initPc' = "validating"
               /\ validateCalls' = validateCalls + 1
               /\ LET req == Request("validate", U_validate, data.token) IN
                    /\ inflight' = inflight (+) SetToBag({req})
                    /\ last' = Sent(req)
               /\ UNCHANGED state
          ELSE /\ initPc' = "done"
               /\ state' = Anonymous
               /\ last' = Step("initAuthDone")
               /\ UNCHANGED <<validateCalls, inflight>>
  /\ handler' = "initAuth"
  /\ UNCHANGED <<storage, pathname, navPending, logoutTimer, locationFrom, pages>>
  /\ Rerender

\* initAuth after its await: validateToken resolved with valid = true
ValidateValid(r, u) ==
  /\ state' = Authenticated(u, r.token)
  /\ last' = Answered("validateValid", r, TRUE, NoFailure, NoRejection,
                      [token |-> r.token, user |-> u])
  /\ UNCHANGED <<storage, navPending>>

\* ... with valid = false
ValidateInvalid(r) ==
  /\ storage' = clearAuthData
  /\ state' = Anonymous
  /\ last' = Answered("validateInvalid", r, TRUE, NoFailure, NoRejection, NoData)
  /\ UNCHANGED navPending

\* the catch branch of initAuth without clearAuthData
ValidateRejected_KeepsStorage(r, f) ==
  /\ storage' = InterceptedStorage(r.url, f)
  /\ navPending' = InterceptedNav(r.url, f)
  /\ state' = Anonymous
  /\ last' = Answered("validateRejected", r, FALSE, f, RequestReject(r.url, f), NoData)

\* ... or validateToken rejected
ValidateRejected(r, f) ==
  /\ storage' = clearAuthData
  /\ navPending' = InterceptedNav(r.url, f)
  /\ state' = Anonymous
  /\ last' = Answered("validateRejected", r, FALSE, f, RequestReject(r.url, f), NoData)

ValidateResponse ==
  \E r \in Pending({"validate"}) :
    /\ initPc = "validating"
    /\ \/ \E u \in Users : ValidateValid(r, u)
       \/ ValidateInvalid(r)
       \/ \E f \in Failures : ValidateRejected(r, f)
    /\ inflight' = inflight (-) SetToBag({r})
    /\ initPc' = "done"
    /\ UNCHANGED <<validateCalls, pathname, logoutTimer, handler, locationFrom, pages>>
    /\ Rerender

\* LoginPage.handleSubmit up to its await: the call of login, with the target
\* of the navigation on success (location.state?.from?.pathname || '/'); rendered
\* is the auth state the router renders next
LoginSubmit(rendered) ==
  [Request("login", U_login, Null) EXCEPT
     !.from = IF locationFrom # NoItem THEN locationFrom ELSE P_root,
     !.mounted = (AppRoutes(rendered, pathname).element = "LoginPage")]

\* LoginPage.handleSubmit, catch branch: the message it passes to setError
HandleSubmitError(err) == err.message

\* login of the auth context, called by the login page (route /login, which
\* AppRoutes renders only while isLoading is false), up to its await
LoginStart ==
  /\ ~state.isLoading
  /\ pathname = P_login
  /\ InFlight(AuthPurposes) < MaxAuthCalls
  /\ state' = [state EXCEPT !.isLoading = TRUE]
  /\ LET req == LoginSubmit(state') IN
       /\ inflight' = inflight (+) SetToBag({req})
       /\ last' = Sent(req)
  /\ handler' = "login"
  /\ UNCHANGED <<storage, initPc, validateCalls, pathname, navPending, logoutTimer,
                 locationFrom, pages>>
  /\ Rerender

\* register of the auth context, called by the register page (route /register)
RegisterStart ==
  /\ ~state.isLoading
  /\ pathname = P_register
  /\ InFlight(AuthPurposes) < MaxAuthCalls
  /\ LET req == Request("register", U_register, Null) IN
       /\ inflight' = inflight (+) SetToBag({req})
       /\ last' = Sent(req)
  /\ handler' = "register"
  /\ state' = [state EXCEPT !.isLoading = TRUE]
  /\ UNCHANGED <<storage, initPc, validateCalls, pathname, navPending, logoutTimer,
                 locationFrom, pages>>
  /\ Rerender

\* login / register after the await: the backend returned accessToken and user;
\* the page then navigates (login: to the location it was sent from, or /)
AuthSucceeded(r, t, u, to) ==
  /\ storage' = setAuthData(t, u)
  /\ state' = Authenticated(u, t)
  /\ pathname' = to
  /\ locationFrom' = NoItem
  /\ last' = Answered(r.purpose \o "Response", r, TRUE, NoFailure, NoRejection,
                      [token |-> t, user |-> u])
  /\ UNCHANGED navPending
  /\ Rerender

\* the catch branch of login / register treating the failure as a logout
AuthFailed_LogsOut(r, f, rejected) ==
  /\ storage' = clearAuthData
  /\ navPending' = InterceptedNav(r.url, f)
  /\ state' = Anonymous
  /\ last' = Answered(r.purpose \o "Response", r, FALSE, f, rejected, NoData)
  /\ UNCHANGED <<pathname, locationFrom>>

\* login / register after the await: the call failed with f; rejected is
\* what AuthService made of the rejection of request()
AuthFailed(r, f, rejected) ==
  /\ storage' = InterceptedStorage(r.url, f)
  /\ navPending' = InterceptedNav(r.url, f)
  /\ state' = [state EXCEPT !.isLoading = FALSE]
  /\ last' = Answered(r.purpose \o "Response", r, FALSE, f, rejected, NoData)
  /\ UNCHANGED <<pathname, locationFrom>>

\* the answer to login; the statuses of a failure are 401, which login and the
\* interceptor tell apart, and 500 for the rest
LoginResponse ==
  \E r \in Pending({"login"}) :
    /\ \/ \E t \in Tokens, u \in Users : AuthSucceeded(r, t, u, r.from)
       \/ \E f \in {x \in Failures : x.status \notin {400, 409}} :
            LET rejected == LoginReject(RequestReject(r.url, f)) IN
              /\ AuthFailed(r, f, rejected)
              /\ IF r.mounted
                 THEN loginError' = HandleSubmitError(rejected)
                 ELSE Rerender
    /\ inflight' = inflight (-) SetToBag({r})
    /\ UNCHANGED <<initPc, validateCalls, logoutTimer, handler, pages>>

RegisterResponse ==
  \E r \in Pending({"register"}) :
    /\ \/ \E t \in Tokens, u \in Users : AuthSucceeded(r, t, u, P_root)
       \/ \E f \in Failures :
            /\ AuthFailed(r, f, RegisterReject(RequestReject(r.url, f)))
            /\ Rerender
    /\ inflight' = inflight (-) SetToBag({r})
    /\ UNCHANGED <<initPc, validateCalls, logoutTimer, handler, pages>>

\* logout without clearAuthData
logout_KeepsStorage ==
  /\ storage' = storage
  /\ state' = Anonymous
  /\ handler' = "logout"

\* logout of the auth context
logout ==
  /\ storage' = clearAuthData
  /\ state' = Anonymous
  /\ handler' = "logout"

\* useAuthLogout, run by the timer of the profile settings page:
\* logout(); navigate('/login')
LogoutTimerFires ==
  /\ logoutTimer
  /\ logoutTimer' = FALSE
  /\ logout
  /\ pathname' = P_login
  /\ locationFrom' = NoItem
  /\ last' = Step("logout")
  /\ UNCHANGED <<initPc, validateCalls, inflight, navPending, pages>>
  /\ Rerender

\* ------------------------------------------------------ other callers ---
\* a query through the wrapper: prefetchInitialData on a page load, the
\* queries of the pages afterwards
FetchStart ==
  /\ InFlight(ApiPurposes) < MaxInflight
  /\ LET req == Request("fetch", U_books, Null) IN
       /\ inflight' = inflight (+) SetToBag({req})
       /\ last' = Sent(req)
  /\ UNCHANGED <<storage, state, initPc, validateCalls, pathname, navPending,
                 logoutTimer, handler, locationFrom, loginError, pages>>

\* changePasswordMutation.mutate of the profile settings page, a protected route
ChangePasswordStart ==
  /\ ~state.isLoading
  /\ state.isAuthenticated
  /\ pathname = P_settings
  /\ InFlight(ApiPurposes) < MaxInflight
  /\ LET req == Request("changePassword", U_changePassword, Null) IN
       /\ inflight' = inflight (+) SetToBag({req})
       /\ last' = Sent(req)
  /\ UNCHANGED <<storage, state, initPc, validateCalls, pathname, navPending,
                 logoutTimer, handler, locationFrom, loginError, pages>>

\* a call of the wrapper resolved; onSuccess of the password change arms the
\* timer that logs out (a second timer armed meanwhile is not told apart)
ApiSucceeded ==
  \E r \in Pending(ApiPurposes) :
    /\ inflight' = inflight (-) SetToBag({r})
    /\ logoutTimer' = (logoutTimer \/ r.purpose = "changePassword")
    /\ last' = Answered("apiResponse", r, TRUE, NoFailure, NoRejection, NoData)
    /\ UNCHANGED <<storage, state, initPc, validateCalls, pathname, navPending, handler,
                   locationFrom, loginError, pages>>

\* a call of the wrapper failed: response interceptor, then request() rejects;
\* the statuses are 401, which the interceptor tells apart, and 500 for the rest
ApiFailed ==
  \E r \in Pending(ApiPurposes), f \in {x \in Failures : x.status \notin {400, 409}} :
    /\ inflight' = inflight (-) SetToBag({r})
    /\ storage' = InterceptedStorage(r.url, f)
    /\ navPending' = InterceptedNav(r.url, f)
    /\ last' = Answered("apiResponse", r, FALSE, f, RequestReject(r.url, f), NoData)
    /\ UNCHANGED <<state, initPc, validateCalls, pathname, logoutTimer, handler,
                   locationFrom, loginError, pages>>

\* --------------------------------------------------- router and browser ---
\* the user follows a link or moves in the history
Navigate ==
  \E p \in ClientPaths \ {pathname} :
    /\ pathname' = p
    /\ locationFrom' = NoItem
    /\ last' = [Step("navigate") EXCEPT !.path = p]
    /\ UNCHANGED <<storage, state, initPc, validateCalls, inflight, navPending,
                   logoutTimer, handler, pages>>
    /\ Rerender

\* ProtectedRoute: not allowed, <Navigate to={redirectPath} state={{ from: location }} replace />
ProtectedRoute ==
  LET shown == AppRoutes(state, pathname) IN
    /\ shown.element = "Navigate"
    /\ pathname' = shown.to
    /\ locationFrom' = shown.from
    /\ last' = [Step("routeGuard") EXCEPT !.path = shown.to]
    /\ UNCHANGED <<storage, state, initPc, validateCalls, inflight, navPending,
                   logoutTimer, handler, pages>>
    /\ Rerender

\* a new document: the script starts over, localStorage is kept
NewDocument(p) ==
  /\ state' = initialState
  /\ initPc' = "start"
  /\ validateCalls' = 0
  /\ inflight' = EmptyBag
  /\ pathname' = p
  /\ navPending' = FALSE
  /\ logoutTimer' = FALSE
  /\ handler' = "none"
  /\ last' = Event("load", <<>>, NoHeader, TRUE, NoFailure, p, NoRejection, NoData)
  /\ locationFrom' = NoItem
  /\ loginError' = NoMessage
  /\ UNCHANGED <<storage, pages>>

\* the browser follows window.location.href = '/login'
RedirectLoad ==
  /\ navPending
  /\ NewDocument(P_login)

Next ==
  \/ InitAuthStart
  \/ ValidateResponse
  \/ LoginStart
  \/ LoginResponse
  \/ RegisterStart
  \/ RegisterResponse
  \/ LogoutTimerFires
  \/ FetchStart
  \/ ChangePasswordStart
  \/ ApiSucceeded
  \/ ApiFailed
  \/ Navigate
  \/ ProtectedRoute
  \/ RedirectLoad

Spec == Init /\ [][Next]_vars

\* responses arrive, effects and timers run, the browser follows a redirect
Fairness ==
  /\ WF_vars(InitAuthStart)
  /\ WF_vars(ValidateResponse)
  /\ WF_vars(LoginResponse)
  /\ WF_vars(RegisterResponse)
  /\ WF_vars(ApiSucceeded \/ ApiFailed)
  /\ WF_vars(LogoutTimerFires)
  /\ WF_vars(ProtectedRoute)
  /\ WF_vars(RedirectLoad)

FairSpec == Spec /\ Fairness

\* -------------------------------------------------------------- pages ---
\* the session handling at rest: a signed-in user went to a page of the application
session == <<storage, state, initPc, validateCalls, inflight, pathname, navPending,
             logoutTimer, handler, last, locationFrom, loginError>>
SignedIn(u, t, path) ==
  /\ storage = setAuthData(t, u)
  /\ state = Authenticated(u, t)
  /\ initPc = "done"
  /\ validateCalls = 1
  /\ inflight = EmptyBag
  /\ pathname = path
  /\ navPending = FALSE
  /\ logoutTimer = FALSE
  /\ handler = "initAuth"
  /\ last = Step("navigate")
  /\ locationFrom = NoItem
  /\ loginError = NoMessage

\* the page the router shows
Shows(element) == AppRoutes(state, pathname).element = element

\* -------------------------------------------------------- review form ---
\* texts of the textarea: spaces, letters, spaces
Letters(n) == [i \in 1..n |-> "a"]
Contents ==
  {[x \in 1..i |-> " "] \o Letters(j) \o [x \in 1..k |-> " "] :
     i \in 0..MaxPad, j \in 0..MaxText, k \in 0..MaxPad}

\* String.prototype.trim
Trim(str) ==
  LET inked == {i \in 1..Len(str) : str[i] # " "} IN
    IF inked = {}
    THEN <<>>
    ELSE SubSeq(str, CHOOSE i \in inked : \A j \in inked : i <= j,
                     CHOOSE i \in inked : \A j \in inked : i >= j)

\* useState of ReviewForm with the props initialRating and initialContent
ReviewFormMounted(initialRating, initialContent) ==
  [Idle.reviewForm EXCEPT !.rating = initialRating, !.content = initialContent, !.op = "mount"]

\* validateForm without the test of the rating
validateForm_AnyRating(form) ==
  LET contentError == IF Trim(form.content) = <<>> THEN "Please enter a review"
                      ELSE IF Len(Trim(form.content)) < 10
                           THEN "Review must be at least 10 characters long"
                           ELSE form.contentError
  IN [isValid |-> ~(Trim(form.content) = <<>> \/ Len(Trim(form.content)) < 10),
      ratingError |-> form.ratingError, contentError |-> contentError]

\* validateForm without the test of the length
validateForm_AnyLength(form) ==
  LET ratingError == IF form.rating = 0 THEN "Please select a rating" ELSE form.ratingError
      contentError == IF Trim(form.content) = <<>> THEN "Please enter a review"
                      ELSE form.contentError
  IN [isValid |-> ~(form.rating = 0 \/ Trim(form.content) = <<>>),
      ratingError |-> ratingError, contentError |-> contentError]

\* ReviewForm.validateForm: is the form valid, and the errors it shows afterwards
validateForm(form) ==
  LET ratingError == IF form.rating = 0 THEN "Please select a rating" ELSE form.ratingError
      contentError == IF Trim(form.content) = <<>> THEN "Please enter a review"
                      ELSE IF Len(Trim(form.content)) < 10
                           THEN "Review must be at least 10 characters long"
                           ELSE form.contentError
  IN [isValid |-> ~(form.rating = 0 \/ Trim(form.content) = <<>>
                      \/ Len(Trim(form.content)) < 10),
      ratingError |-> ratingError, contentError |-> contentError]

\* ReviewForm.handleRatingChange, called by StarRating with a rating of 1..5
handleRatingChange ==
  /\ Shows("ReviewEditorPage")
  /\ \E newRating \in 1..5 :
       reviewForm' = [reviewForm EXCEPT !.rating = newRating, !.ratingError = NoMessage,
                                        !.op = "handleRatingChange", !.onSubmit = <<>>]
  /\ UNCHANGED <<session, widgets, usersPage, listPage, favoritesPage>>

\* ReviewForm.handleContentChange
handleContentChange ==
  /\ Shows("ReviewEditorPage")
  /\ \E value \in Contents :
       reviewForm' = [reviewForm EXCEPT !.content = value, !.contentError = NoMessage,
                                        !.op = "handleContentChange", !.onSubmit = <<>>]
  /\ UNCHANGED <<session, widgets, usersPage, listPage, favoritesPage>>

\* ReviewForm.handleSubmit; onSubmit holds the arguments of the call of the
\* onSubmit prop, <<>> when it was not called
handleSubmit ==
  /\ Shows("ReviewEditorPage")
  /\ LET checked == validateForm(reviewForm) IN
       reviewForm' = [reviewForm EXCEPT
                        !.ratingError = checked.ratingError,
                        !.contentError = checked.contentError,
                        !.op = "handleSubmit",
                        !.onSubmit = IF checked.isValid
                                     THEN <<reviewForm.rating, reviewForm.content>>
                                     ELSE <<>>]
  /\ UNCHANGED <<session, widgets, usersPage, listPage, favoritesPage>>

\* ----------------------------------------------------------- services ---
\* a JavaScript number is Num(n) or NaN
NaN == [nan |-> TRUE, n |-> 0]

\* `${number}` in a template literal
NumberToString(x) == IF x.nan THEN "NaN" ELSE ToString(x.n)

\* page * pageSize
Offset_FromPage(page, pageSize) == IF page.nan THEN NaN ELSE Num(page.n * pageSize)

\* (page - 1) * pageSize
Offset(page, pageSize) == IF page.nan THEN NaN ELSE Num((page.n - 1) * pageSize)

\* parseInt(text, 10) of a text given as its characters: an optional sign and
\* the digits at its start, NaN without a digit
Digit ==
  [c \in {"0", "1", "2", "3", "4", "5", "6", "7", "8", "9"} |->
     CASE c = "0" -> 0 [] c = "1" -> 1 [] c = "2" -> 2 [] c = "3" -> 3 [] c = "4" -> 4
       [] c = "5" -> 5 [] c = "6" -> 6 [] c = "7" -> 7 [] c = "8" -> 8 [] OTHER -> 9]
RECURSIVE DigitsValue(_, _, _)
DigitsValue(text, i, acc) ==
  IF i > Len(text) \/ text[i] \notin DOMAIN Digit
  THEN acc
  ELSE DigitsValue(text, i + 1, 10 * acc + Digit[text[i]])
parseInt(text) ==
  LET negative == text # <<>> /\ text[1] = "-"
      first == IF negative THEN 2 ELSE 1
  IN IF first > Len(text) \/ text[first] \notin DOMAIN Digit
     THEN NaN
     ELSE Num((IF negative THEN -1 ELSE 1) * DigitsValue(text, first, 0))

\* encodeURIComponent over the pieces of a text
encodeURIComponent(text) ==
  [i \in 1..Len(text) |->
     CASE text[i] = " " -> "%20" [] text[i] = "&" -> "%26" [] text[i] = "=" -> "%3D"
       [] text[i] = "?" -> "%3F" [] OTHER -> text[i]]

\* an HTTP request of the wrapper; the url is the sequence of its pieces
Http(method, url) == [method |-> method, url |-> url]

\* the answer of GET /users/profile/me: the user, or a failure
MeResponses == [ok : {TRUE}, id : {u.id : u \in Users}] \cup {[ok |-> FALSE, id |-> 0]}

\* ?skip=${skip}&take=${take}
SkipTake(sep, skip, take) ==
  <<sep, "skip", "=", NumberToString(skip), "&", "take", "=", NumberToString(take)>>

\* BookService: the requests of a call of fn; take is the limit of getRecommendedBooks
BookService(fn, id, query, skip, take) ==
  CASE fn = "getBooks" -> <<Http("GET", <<"/books">> \o SkipTake("?", skip, take))>>
    [] fn = "searchBooks" ->
         <<Http("GET", <<"/books/search", "?", "query", "=">> \o encodeURIComponent(query)
                         \o SkipTake("&", skip, take))>>
    [] fn = "getBookById" -> <<Http("GET", <<"/books/", id>>)>>
    [] fn = "getRecommendedBooks" ->
         <<Http("GET", <<"/books/recommended", "?", "limit", "=", NumberToString(take)>>)>>
    [] fn = "createBook" -> <<Http("POST", <<"/books">>)>>
    [] fn = "updateBook" -> <<Http("PATCH", <<"/books/", id>>)>>
    [] fn = "deleteBook" -> <<Http("DELETE", <<"/books/", id>>)>>

\* ReviewService: the list functions
ReviewService(fn, id, skip, take) ==
  CASE fn = "getBookReviews" ->
         <<Http("GET", <<"/reviews/book/", id>> \o SkipTake("?", skip, take))>>
    [] fn = "getUserReviews" ->
         <<Http("GET", <<"/reviews/user/", ToString(id)>> \o SkipTake("?", skip, take))>>

\* AdminService: the list functions
AdminService(fn, skip, take) ==
  CASE fn = "getUsers" -> <<Http("GET", <<"/admin/users">> \o SkipTake("?", skip, take))>>
    [] fn = "getReviewsForModeration" ->
         <<Http("GET", <<"/admin/reviews/moderation">> \o SkipTake("?", skip, take))>>

\* FavoriteService.getUserFavorites
FavoriteService(fn) == <<Http("GET", <<"/favorites">>)>>

\* UserService addressing the current user as /users/me, without asking who it is
UserService_Me(fn, id, skip, take, me) ==
  CASE fn = "getCurrentUser" -> <<Http("GET", <<"/users/me">>)>>
    [] fn = "changePassword" -> <<Http("POST", <<"/users/change-password">>)>>
    [] fn = "getUserById" -> <<Http("GET", <<"/users/", ToString(id)>>)>>
    [] fn = "updateProfile" -> <<Http("PATCH", <<"/users/me">>)>>
    [] fn = "deleteAccount" -> <<Http("DELETE", <<"/users/me">>)>>
    [] fn = "getReadingList" ->
         <<Http("GET", <<"/users/me/reading-list">> \o SkipTake("?", skip, take))>>
    [] fn = "addToReadingList" -> <<Http("POST", <<"/users/me/reading-list">>)>>
    [] fn = "removeFromReadingList" -> <<Http("DELETE", <<"/users/me/reading-list/", id>>)>>

\* UserService: the requests of a call of fn; me is the answer to the
\* getCurrentUser that five of the functions await first
UserService(fn, id, skip, take, me) ==
  LET getCurrentUser == <<Http("GET", <<"/users/profile/me">>)>>
      userId == ToString(me.id)
      then(request) == getCurrentUser \o IF me.ok THEN <<request>> ELSE <<>>
  IN CASE fn = "getCurrentUser" -> getCurrentUser
       [] fn = "changePassword" -> <<Http("POST", <<"/users/change-password">>)>>
       [] fn = "getUserById" -> <<Http("GET", <<"/users/", ToString(id)>>)>>
       [] fn = "updateProfile" -> then(Http("PATCH", <<"/users/", userId>>))
       [] fn = "deleteAccount" -> then(Http("DELETE", <<"/users/", userId>>))
       [] fn = "getReadingList" ->
            then(Http("GET", <<"/users/", userId, "/reading-list">> \o SkipTake("?", skip, take)))
       [] fn = "addToReadingList" -> then(Http("POST", <<"/users/", userId, "/reading-list">>))
       [] fn = "removeFromReadingList" ->
            then(Http("DELETE", <<"/users/", userId, "/reading-list/", id>>))

\* --------------------------------------------------------- list pages ---
\* the page parameter of the URL of the books page, '' when absent, and the
\* search filter, as pieces of text
PageParams ==
  {<<>>, <<"1">>, <<"2">>, <<"3">>, <<"1", "0">>, <<"0">>, <<"-", "1">>, <<"2", "x">>, <<"x">>}
Searches == {<<>>, <<"a">>, <<"a", " ", "b">>, <<"a", "&", "skip", "=", "9">>}

\* a page ran a query or a mutation: the service function or the page that
\* asked, the page number and page size of a list, the requests sent
Ran(kind, page, size, requests) ==
  /\ listPage' = [kind |-> kind, page |-> page, size |-> size, requests |-> requests]
  /\ UNCHANGED <<session, widgets, usersPage, reviewForm, favoritesPage>>

\* BooksPage: the page of the URL, the query of useQuery
BooksPage ==
  /\ Shows("BooksPage")
  /\ \E param \in PageParams, search \in Searches :
       LET page == parseInt(IF param # <<>> THEN param ELSE <<"1">>)
           pageSize == 12
           skip == Offset(page, pageSize)
       IN Ran("BooksPage", page, pageSize,
              IF search # <<>>
              THEN BookService("searchBooks", "", search, skip, Num(pageSize))
              ELSE BookService("getBooks", "", <<>>, skip, Num(pageSize)))

BookDetailPage ==
  /\ Shows("BookDetailPage")
  /\ \E reviewPage \in 1..MaxPage, id \in {"b1", "b2"} :
       LET reviewsPerPage == 5 IN
         Ran("BookDetailPage", Num(reviewPage), reviewsPerPage,
             ReviewService("getBookReviews", id, Offset(Num(reviewPage), reviewsPerPage),
                           Num(reviewsPerPage)))

ProfilePage ==
  /\ Shows("ProfilePage")
  /\ \E reviewPage \in 1..MaxPage :
       LET reviewsPerPage == 5 IN
         Ran("ProfilePage", Num(reviewPage), reviewsPerPage,
             ReviewService("getUserReviews", state.user.id,
                           Offset(Num(reviewPage), reviewsPerPage), Num(reviewsPerPage)))

UserReviewsPage ==
  /\ Shows("UserReviewsPage")
  /\ \E page \in 1..MaxPage :
       LET pageSize == 10 IN
         Ran("UserReviewsPage", Num(page), pageSize,
             ReviewService("getUserReviews", state.user.id, Offset(Num(page), pageSize),
                           Num(pageSize)))

ReadingListPage ==
  /\ Shows("ReadingListPage")
  /\ \E currentPage \in 1..MaxPage, me \in MeResponses :
       LET booksPerPage == 10 IN
         Ran("ReadingListPage", Num(currentPage), booksPerPage,
             UserService("getReadingList", "", Offset(Num(currentPage), booksPerPage),
                         Num(booksPerPage), me))

AdminUsersPage ==
  /\ Shows("AdminUsersPage")
  /\ \E currentPage \in 1..MaxPage :
       LET usersPerPage == 10 IN
         Ran("AdminUsersPage", Num(currentPage), usersPerPage,
             AdminService("getUsers", Offset(Num(currentPage), usersPerPage),
                          Num(usersPerPage)))

AdminBooksPage ==
  /\ Shows("AdminBooksPage")
  /\ \E currentPage \in 1..MaxPage :
       LET booksPerPage == 10 IN
         Ran("AdminBooksPage", Num(currentPage), booksPerPage,
             BookService("getBooks", "", <<>>, Offset(Num(currentPage), booksPerPage),
                         Num(booksPerPage)))

AdminReviewsPage ==
  /\ Shows("AdminReviewsPage")
  /\ \E currentPage \in 1..MaxPage :
       LET reviewsPerPage == 10 IN
         Ran("AdminReviewsPage", Num(currentPage), reviewsPerPage,
             AdminService("getReviewsForModeration",
                          Offset(Num(currentPage), reviewsPerPage), Num(reviewsPerPage)))

\* the other functions of BookService and UserService, called by the mutations
\* and queries of the pages (the favorites page and the review editor call
\* none of them)
ServiceCall ==
  /\ state.isAuthenticated
  /\ ~Shows("FavoritesPage")
  /\ ~Shows("ReviewEditorPage")
  /\ \E id \in {"b1", "b2"}, me \in MeResponses :
       \/ \E fn \in {"getBookById", "getRecommendedBooks", "createBook", "updateBook",
                     "deleteBook"} :
            Ran("BookService." \o fn, Num(1), 0, BookService(fn, id, <<>>, Num(0), Num(4)))
       \/ \E fn \in {"getCurrentUser", "changePassword", "updateProfile", "deleteAccount",
                     "addToReadingList", "removeFromReadingList"} :
            Ran("UserService." \o fn, Num(1), 0, UserService(fn, id, Num(0), Num(10), me))
       \/ Ran("UserService.getUserById", Num(1), 0,
              UserService("getUserById", state.user.id, Num(0), Num(10), me))

\* ------------------------------------------------------ favorites page ---
FavoritesPage_itemsPerPage == 10

\* what GET /favorites returns: total favorites, the one at noBook (if any)
\* without its book, which UserFavorite allows
FavoriteLists ==
  {[i \in 1..total |-> [bookId |-> i, book |-> i # noBook]] :
     total \in 0..MaxFavorites, noBook \in 0..MaxFavorites}

\* Math.ceil(data.length / itemsPerPage), 1 without data
FavoritesPage_totalPages(data) ==
  LET count == (Len(data) + FavoritesPage_itemsPerPage - 1) \div FavoritesPage_itemsPerPage
  IN IF count > 1 THEN count ELSE 1

\* data.slice((page - 1) * itemsPerPage, page * itemsPerPage)
FavoritesPage_currentPageItems(page, data) ==
  LET start == (page - 1) * FavoritesPage_itemsPerPage
      end == page * FavoritesPage_itemsPerPage
  IN SubSeq(data, start + 1, IF end < Len(data) THEN end ELSE Len(data))

\* the links of the grid: the items of the page that carry their book
FavoritesPage_rendered(page, data) ==
  LET items == FavoritesPage_currentPageItems(page, data)
  IN Cardinality({i \in 1..Len(items) : items[i].book})

\* useQuery(['favorites', page]) resolved: on mount, after a page change, on a refetch
FavoritesLoaded ==
  /\ Shows("FavoritesPage")
  /\ \E data \in FavoriteLists :
       favoritesPage' = [favoritesPage EXCEPT !.data = data, !.op = "loaded"]
  /\ listPage' = [kind |-> "FavoriteService.getUserFavorites", page |-> Num(1), size |-> 0,
                  requests |-> FavoriteService("getUserFavorites")]
  /\ UNCHANGED <<session, widgets, usersPage, reviewForm>>

\* handlePageChange, called by the Pagination of the grid, which is rendered
\* for more than one page when the current page has items
FavoritesPageChange ==
  /\ Shows("FavoritesPage")
  /\ favoritesPage.op # "none"
  /\ Len(FavoritesPage_currentPageItems(favoritesPage.page, favoritesPage.data)) > 0
  /\ FavoritesPage_totalPages(favoritesPage.data) > 1
  /\ \E newPage \in 1..FavoritesPage_totalPages(favoritesPage.data) :
       favoritesPage' = [favoritesPage EXCEPT !.page = newPage, !.op = "handlePageChange"]
  /\ UNCHANGED <<session, widgets, usersPage, reviewForm, listPage>>

\* --------------------------------------------------- admin users page ---
\* the users the table lists
ListedUsers ==
  {[id |-> 1, displayName |-> "Ann", email |-> "ann@example.com", role |-> "user"],
   [id |-> 2, displayName |-> "Bob", email |-> "bob@example.com", role |-> "admin"]}

\* const [ setSelectedUser] = useState<User | null>(null): the name is bound to
\* the first element of the pair, the state, and not to its setter
setSelectedUser == Null

\* AdminUsersPage.handleEditUser, the onClick of Edit; its first statement calls
\* setSelectedUser, and calling null throws a TypeError that ends the handler
handleEditUser ==
  /\ Shows("AdminUsersPage")
  /\ \E user \in ListedUsers :
       usersPage' =
         IF setSelectedUser = Null
         THEN [usersPage EXCEPT !.op = "handleEditUser", !.user = user.id, !.threw = TRUE]
         ELSE [usersPage EXCEPT !.op = "handleEditUser", !.user = user.id, !.threw = FALSE,
                                !.formData = user, !.isModalOpen = TRUE]
  /\ UNCHANGED <<session, widgets, reviewForm, listPage, favoritesPage>>

\* ------------------------------------------------------ pages at large ---
\* the paths of the list pages, the favorites page and the review editor
PagePaths ==
  {Visit(r.path) : r \in {x \in Routes : x.element \in
     {"BooksPage", "BookDetailPage", "ProfilePage", "UserReviewsPage", "ReadingListPage",
      "FavoritesPage", "AdminUsersPage", "AdminBooksPage", "AdminReviewsPage",
      "ReviewEditorPage"}}}

\* the review forms a page mounts: the editor one for a new review or one with
\* the rating and text of an existing review, the other pages none
Mounts(path) ==
  IF MatchRoute(path).element = "ReviewEditorPage"
  THEN {ReviewFormMounted(0, <<>>)} \cup {ReviewFormMounted(r, Letters(MaxText)) : r \in 1..5}
  ELSE {Idle.reviewForm}

\* the user opens another page: what was mounted is unmounted
OpenPage ==
  \E p \in PagePaths \ {pathname} :
    /\ AppRoutes(state, p).element # "Navigate"
    /\ pathname' = p
    /\ reviewForm' \in Mounts(p)
    /\ listPage' = Idle.listPage
    /\ favoritesPage' = Idle.favoritesPage
    /\ usersPage' = Idle.usersPage
    /\ last' = [Step("navigate") EXCEPT !.path = p]
    /\ UNCHANGED <<storage, state, initPc, validateCalls, inflight, navPending, logoutTimer,
                   handler, locationFrom, loginError, widgets>>

PagesInit ==
  /\ \E u \in Users, t \in Tokens, p \in PagePaths :
       /\ SignedIn(u, t, p)
       /\ AppRoutes(state, p).element # "Navigate"
       /\ reviewForm \in Mounts(p)
  /\ listPage = Idle.listPage
  /\ favoritesPage = Idle.favoritesPage
  /\ usersPage = Idle.usersPage
  /\ collector = Idle.collector
  /\ lazyLoad = Idle.lazyLoad

PagesNext ==
  \/ handleRatingChange
  \/ handleContentChange
  \/ handleSubmit
  \/ BooksPage
  \/ BookDetailPage
  \/ ProfilePage
  \/ UserReviewsPage
  \/ ReadingListPage
  \/ AdminUsersPage
  \/ AdminBooksPage
  \/ AdminReviewsPage
  \/ ServiceCall
  \/ FavoritesLoaded
  \/ FavoritesPageChange
  \/ handleEditUser
  \/ OpenPage

PagesSpec == PagesInit /\ [][PagesNext]_vars

\* ------------------------------------------------- metrics collector ---
\* the metrics web-vitals reports, by name and value; the values of CLS are in
\* hundredths (10 is 0.1)
Reports ==
  [name : {"LCP"}, value : {1500, 2000, 2500}] \cup [name : {"CLS"}, value : {10, 30}]
    \cup [name : {"FID"}, value : {100, 120}]

\* record[key] = value of a JavaScript object
Assign(record, key, value) ==
  [n \in DOMAIN record \cup {key} |-> IF n = key THEN value ELSE record[n]]

\* sendToAnalytics storing a metric only under a name that is not yet stored
sendToAnalytics_KeepsFirst ==
  /\ Len(collector.reported) < MaxReports
  /\ \E m \in Reports :
       LET metric == [name |-> m.name, value |-> m.value, id |-> Len(collector.reported) + 1]
       IN collector' = [collector EXCEPT
                          !.metrics = IF m.name \in DOMAIN @ THEN @ ELSE Assign(@, m.name, metric),
                          !.reported = Append(@, metric),
                          !.op = "sendToAnalytics"]
  /\ UNCHANGED <<session, reviewForm, listPage, favoritesPage, usersPage, lazyLoad>>

\* sendToAnalytics, the handler web-vitals calls with each metric; reported is
\* the log of its calls
sendToAnalytics ==
  /\ Len(collector.reported) < MaxReports
  /\ \E m \in Reports :
       LET metric == [name |-> m.name, value |-> m.value, id |-> Len(collector.reported) + 1]
       IN collector' = [collector EXCEPT
                          !.metrics = Assign(@, m.name, metric),
                          !.reported = Append(@, metric),
                          !.op = "sendToAnalytics"]
  /\ UNCHANGED <<session, reviewForm, listPage, favoritesPage, usersPage, lazyLoad>>

\* getCollectedMetrics: { ...metrics }, a new object with the entries of metrics
getCollectedMetrics == [n \in DOMAIN collector.metrics |-> collector.metrics[n]]

\* a caller replaces the LCP entry of the record getCollectedMetrics returned
\* to it, as the tests do; held is that record afterwards
ReplaceEntry ==
  /\ \E m \in {r \in Reports : r.name = "LCP"} :
       collector' = [collector EXCEPT
                       !.held = Assign(getCollectedMetrics, m.name,
                                       [name |-> m.name, value |-> m.value, id |-> 0]),
                       !.op = "replaceEntry"]
  /\ UNCHANGED <<session, reviewForm, listPage, favoritesPage, usersPage, lazyLoad>>

\* checkPerformanceTarget with <= in place of <
checkPerformanceTarget_AtMost ==
  IF "LCP" \notin DOMAIN collector.metrics THEN FALSE ELSE collector.metrics["LCP"].value <= 2000

\* checkPerformanceTarget
checkPerformanceTarget ==
  IF "LCP" \notin DOMAIN collector.metrics THEN FALSE ELSE collector.metrics["LCP"].value < 2000

\* getPerformanceRecommendations pushing the recommendation of CLS first
getPerformanceRecommendations_ClsFirst ==
  LET metrics == collector.metrics IN
    (IF "CLS" \notin DOMAIN metrics \/ metrics["CLS"].value > 10
     THEN <<"Improve Cumulative Layout Shift (CLS)">> ELSE <<>>)
    \o (IF "LCP" \notin DOMAIN metrics \/ metrics["LCP"].value > 2000
        THEN <<"Optimize Largest Contentful Paint (LCP)">> ELSE <<>>)
    \o (IF "FID" \notin DOMAIN metrics \/ metrics["FID"].value > 100
        THEN <<"Reduce First Input Delay (FID)">> ELSE <<>>)

\* getPerformanceRecommendations; each text is cut after the name of its metric
getPerformanceRecommendations ==
  LET metrics == collector.metrics IN
    (IF "LCP" \notin DOMAIN metrics \/ metrics["LCP"].value > 2000
     THEN <<"Optimize Largest Contentful Paint (LCP)">> ELSE <<>>)
    \o (IF "CLS" \notin DOMAIN metrics \/ metrics["CLS"].value > 10
        THEN <<"Improve Cumulative Layout Shift (CLS)">> ELSE <<>>)
    \o (IF "FID" \notin DOMAIN metrics \/ metrics["FID"].value > 100
        THEN <<"Reduce First Input Delay (FID)">> ELSE <<>>)

\* ------------------------------------------------------------ LazyLoad ---
\* LazyLoad mounted with a keepMounted prop: useState, and the effect that
\* observes the element
LazyLoad ==
  /\ \E keepMounted \in BOOLEAN :
       lazyLoad' = [Idle.lazyLoad EXCEPT !.mounted = TRUE, !.keepMounted = keepMounted,
                                         !.observing = TRUE]
  /\ UNCHANGED <<session, reviewForm, listPage, favoritesPage, usersPage, collector>>

\* the callback of the observer without its else branch
IntersectionObserved_NeverHides ==
  /\ lazyLoad.observing
  /\ \E isIntersecting \in BOOLEAN :
       lazyLoad' =
         IF isIntersecting
         THEN [lazyLoad EXCEPT !.isVisible = TRUE, !.hasBeenVisible = TRUE,
                               !.observing = ~lazyLoad.keepMounted,
                               !.entry = "intersecting", !.intersected = TRUE]
         ELSE [lazyLoad EXCEPT !.entry = "away"]
  /\ UNCHANGED <<session, reviewForm, listPage, favoritesPage, usersPage, collector>>

\* the callback of the IntersectionObserver with the entry it is given; entry
\* and intersected record the entry delivered last and whether one intersected
IntersectionObserved ==
  /\ lazyLoad.observing
  /\ \E isIntersecting \in BOOLEAN :
       lazyLoad' =
         IF isIntersecting
         THEN [lazyLoad EXCEPT !.isVisible = TRUE, !.hasBeenVisible = TRUE,
                               !.observing = ~lazyLoad.keepMounted,
                               !.entry = "intersecting", !.intersected = TRUE]
         ELSE [lazyLoad EXCEPT !.isVisible = IF ~lazyLoad.keepMounted THEN FALSE ELSE @,
                               !.entry = "away"]
  /\ UNCHANGED <<session, reviewForm, listPage, favoritesPage, usersPage, collector>>

\* what LazyLoad renders in its div
shouldRender ==
  IF lazyLoad.isVisible \/ (lazyLoad.keepMounted /\ lazyLoad.hasBeenVisible)
  THEN "children"
  ELSE "placeholder"

\* the collector and a LazyLoad in a page load of a signed-in user
WidgetsInit ==
  /\ \E u \in Users : SignedIn(u, "t1", P_root)
  /\ reviewForm = Idle.reviewForm
  /\ listPage = Idle.listPage
  /\ favoritesPage = Idle.favoritesPage
  /\ usersPage = Idle.usersPage
  /\ collector = Idle.collector
  /\ lazyLoad = Idle.lazyLoad

WidgetsNext ==
  \/ sendToAnalytics
  \/ ReplaceEntry
  \/ LazyLoad
  \/ IntersectionObserved

WidgetsSpec == WidgetsInit /\ [][WidgetsNext]_vars

\* ------------------------------------------------------------- claims ---
Responses == {"validateRejected", "loginResponse", "registerResponse", "apiResponse"}
\* the step taken last was a call answered 401
Got401 == last.op \in Responses /\ ~last.ok /\ last.failure.status = 401

\* C1: a 401 answer to a call other than /auth/login and /auth/register, on a
\* path that contains neither /login nor /register, leaves localStorage
\* without token and user and the location set to /login, and the call rejects.
C1_SessionExpiry ==
  (Got401 /\ ~IsAuthRequest(last.url) /\ ~IsAuthPage(last.path))
    => /\ storage = clearAuthData
       /\ navPending
       /\ last.val # NoRejection

\* C1 witness: a query sent with a stored token is answered 401 on the home page
C1_Witness ==
  /\ Got401
  /\ last.op = "apiResponse"
  /\ last.url = U_books
  /\ last.path = P_root
  /\ state.isAuthenticated
  /\ storage = clearAuthData
  /\ navPending

\* C2: a 401 answer to /auth/login makes the login call reject with exactly
\* {message: "Invalid email or password. Please try again.", statusCode: 401}
\* whatever the body, and changes neither localStorage nor the location.
C2_LoginInvalidCredentials ==
  [][(last'.op = "loginResponse" /\ ~last'.ok /\ last'.failure.status = 401)
       => /\ last'.val = Rejection(InvalidCredentials, 401)
          /\ storage' = storage
          /\ navPending' = navPending
          /\ pathname' = pathname]_vars

\* C3 as stated: a 401 answer neither clears the stored session nor redirects
\* when the call is a login or register call or the path is /login or /register.
C3_Original ==
  [][(last'.op \in Responses /\ ~last'.ok /\ last'.failure.status = 401
        /\ (IsAuthRequest(last'.url) \/ pathname \in {P_login, P_register}))
       => (storage' = storage /\ navPending' = navPending)]_vars

\* C3 amended: in those cases a 401 answer never redirects, and it leaves the
\* stored session alone unless it answers the validation call of the startup,
\* whose failure clears the stored session on every path.
C3_NoRedirectLoop ==
  [][(last'.op \in Responses /\ ~last'.ok /\ last'.failure.status = 401
        /\ (IsAuthRequest(last'.url) \/ pathname \in {P_login, P_register}))
       => /\ navPending' = navPending
          /\ (last'.op # "validateRejected" => storage' = storage)]_vars

\* C3 witness: on /login a query is answered 401 and the stored session stays
C3_Witness ==
  /\ Got401
  /\ last.op = "apiResponse"
  /\ last.path = P_login
  /\ pathname = P_login
  /\ storage.token # Null
  /\ storage.user # NoItem
  /\ ~navPending

\* C4: after a page load the auth state leaves loading, whatever localStorage
\* holds and whatever the validation call returns.
C4_StartupSettles == (initPc = "start") ~> (~state.isLoading)

\* C5: when the validation of the startup rejects or returns valid = false,
\* localStorage is left without token and user, the auth state is anonymous
\* and the validation is not called again.
C5_FailedValidation ==
  /\ validateCalls <= 1
  /\ (last.op \in {"validateInvalid", "validateRejected"})
       => /\ storage = clearAuthData
          /\ state = Anonymous
          /\ initPc = "done"
          /\ Pending({"validate"}) = {}

\* C5 witness: the validation was rejected without a 401 (nothing but initAuth
\* cleared the stored session)
C5_Witness ==
  /\ last.op = "validateRejected"
  /\ last.failure.status = 500
  /\ storage = clearAuthData
  /\ state = Anonymous

\* C6: a successful login or register leaves the auth state authenticated with
\* the user and the access token the backend returned, and localStorage with
\* that token under token and that user, as JSON text, under user.
C6_LoginSucceeded ==
  (last.op \in {"loginResponse", "registerResponse"} /\ last.ok)
    => /\ state = Authenticated(last.data.user, last.data.token)
       /\ storage.token = last.data.token
       /\ IsJSON(storage.user)
       /\ JSONparse(storage.user) = last.data.user

\* C6 witness: a login succeeded on /login and the page went on to /
C6_Witness ==
  /\ last.op = "loginResponse"
  /\ last.ok
  /\ last.path = P_login
  /\ pathname = P_root
  /\ state.isAuthenticated
  /\ storage.token = last.data.token

\* C7: after logout the auth state is anonymous and localStorage holds neither
\* token nor user, in whatever state it was called.
C7_Logout ==
  (last.op = "logout") => (state = Anonymous /\ storage = clearAuthData)

\* C7 witness: logout ran while a login call was in flight
C7_Witness ==
  /\ last.op = "logout"
  /\ Pending({"login"}) # {}
  /\ state = Anonymous
  /\ storage = clearAuthData

\* C8: whenever the auth state is authenticated, localStorage holds the same
\* token under token and a user record under user.
C8_StorageMirrorsState ==
  state.isAuthenticated => (storage.token = state.token /\ storage.user # NoItem)

\* C9: once no auth handler is in flight, the auth state and localStorage
\* reflect the handler invoked last; when that handler is logout, the auth
\* state is anonymous and localStorage holds neither token nor user.
Quiescent == Pending(AuthPurposes) = {} /\ initPc \in {"done", "threw"}
C9_LastHandlerWins ==
  (Quiescent /\ handler = "logout") => (state = Anonymous /\ storage = clearAuthData)

\* C10: a call is sent with Authorization: Bearer <token> exactly when
\* localStorage holds a token when it is sent, with that token.
C10_BearerHeader ==
  (last.op = "send")
       => /\ (storage.token # Null => last.hdr = <<"Bearer", storage.token>>)
          /\ (storage.token = Null => last.hdr = NoHeader)

\* C10 witness: a call is sent with the stored token while the auth state
\* holds none
C10_Witness ==
  /\ last.op = "send"
  /\ last.hdr = <<"Bearer", "t1">>
  /\ storage.token = "t1"
  /\ state.token = Null

\* C10 witness, the other case: a call is sent without a header
C10_WitnessNoHeader ==
  /\ last.op = "send"
  /\ last.hdr = NoHeader
  /\ storage.token = Null
  /\ state.token # Null

\* the step taken last was a call of the wrapper that failed; last.val is
\* what request() rejected with
WrapperFailed == last.op \in {"apiResponse", "validateRejected"} /\ ~last.ok

\* C11: every failed call of the wrapper rejects with a message string and,
\* whenever a response was received, with the status of that response as
\* statusCode.
C11_RejectionShape ==
  WrapperFailed
    => /\ last.val.message # NoMessage
       /\ (last.failure.status # NoStatus => last.val.statusCode = last.failure.status)

\* C12 as stated: a failed response without a body is rejected with the
\* fallback message "An error occurred. Please try again." and the status.
C12_Original ==
  (WrapperFailed /\ last.failure.status # NoStatus /\ last.failure.body.kind = "none")
    => last.val = Rejection(GenericError, last.failure.status)

\* C12 amended: a failed response without a body is rejected with the message
\* of the AxiosError ("Request failed with status code N") and the status;
\* the fallback message stands in only for an empty AxiosError message.
C12_NoBody ==
  (WrapperFailed /\ last.failure.status # NoStatus /\ last.failure.body.kind = "none")
    => /\ last.val = Rejection(AxiosMessage(last.failure.status), last.failure.status)
       /\ last.val.message # GenericError

\* C12 witness: a query answered 500 without a body
C12_Witness ==
  /\ last.op = "apiResponse"
  /\ last.failure = [status |-> 500, body |-> BodyNone]
  /\ last.val.message = "Request failed with status code 500"
  /\ last.val.statusCode = 500

\* C13: after a login attempt failed, the login screen is displayed with an
\* error alert that contains the message of the failed attempt.
C13_LoginErrorShown ==
  (last.op = "loginResponse" /\ ~last.ok /\ pathname = P_login /\ ~state.isLoading)
    => /\ AppRoutes(state, pathname).element = "LoginPage"
       /\ loginError = last.val.message

\* C14: while the auth state is loading the router renders the spinner and no
\* route; while it is anonymous every authenticated-only route renders
\* <Navigate> to /login with the requested location as state.from and never
\* its page, and the redirect leaves the router at /login with that location.
C14_AnonymousRedirected ==
  /\ [](\A p \in AllPaths : state.isLoading => AppRoutes(state, p) = Renders("Spinner"))
  /\ [](\A p \in ProtectedPaths :
          (~state.isLoading /\ ~state.isAuthenticated)
            => AppRoutes(state, p) = NavigateTo(P_login, p))
  /\ [][(last'.op = "routeGuard" /\ pathname \in ProtectedPaths)
          => (~state.isAuthenticated /\ pathname' = P_login /\ locationFrom' = pathname)]_vars

\* C14 witness: an anonymous visitor of /profile/settings was sent to /login
C14_Witness ==
  /\ last.op = "routeGuard"
  /\ pathname = P_login
  /\ locationFrom = P_settings
  /\ state = Anonymous
  /\ AppRoutes(state, pathname).element = "LoginPage"

\* the elements of the admin routes
AdminElements ==
  {"AdminDashboard", "AdminBooksPage", "AdminUsersPage", "AdminReviewsPage", "PerformanceDashboard"}

\* C15 as stated: an admin route renders its page only for an authenticated
\* admin, and in every other state it redirects to /.
C15_Original ==
  \A p \in AdminPaths :
    IF state.isAuthenticated /\ state.user.role = "admin" /\ ~state.isLoading
    THEN AppRoutes(state, p).element \in AdminElements
    ELSE AppRoutes(state, p) = NavigateTo(P_root, p)

\* C15 amended: an admin route renders its page only for an authenticated
\* admin; while the auth state is loading it renders the spinner and does not
\* redirect; in every other state it redirects to / and renders no admin page.
C15_AdminOnly ==
  \A p \in AdminPaths :
    IF state.isLoading
    THEN AppRoutes(state, p) = Renders("Spinner")
    ELSE IF state.isAuthenticated /\ state.user.role = "admin"
         THEN AppRoutes(state, p).element \in AdminElements
         ELSE AppRoutes(state, p) = NavigateTo(P_root, p)

\* C15 witness: a signed-in user who is no admin was sent from /admin to /
C15_Witness ==
  /\ last.op = "routeGuard"
  /\ pathname = P_root
  /\ locationFrom = P_admin
  /\ state.isAuthenticated
  /\ state.user.role = "user"

\* the form was submitted last
Submitted == reviewForm.op = "handleSubmit"

\* C16: a submission with rating 0 and a content that is not empty does not
\* call onSubmit and shows "Please select a rating".
C16_RatingRequired ==
  (Submitted /\ reviewForm.rating = 0 /\ reviewForm.content # <<>>)
    => (reviewForm.onSubmit = <<>> /\ reviewForm.ratingError = "Please select a rating")

\* C16 witness: rating 0 with a text of ten letters, so that nothing but the
\* rating stops the submission
C16_Witness ==
  /\ Submitted
  /\ reviewForm.rating = 0
  /\ reviewForm.content = Letters(10)
  /\ reviewForm.contentError = NoMessage
  /\ reviewForm.ratingError = "Please select a rating"
  /\ reviewForm.onSubmit = <<>>

\* C17 as stated: a submission with a content shorter than 10 characters, the
\* empty one included, does not call onSubmit and shows the error about the
\* length.
C17_Original ==
  (Submitted /\ Len(reviewForm.content) < 10)
    => (reviewForm.onSubmit = <<>> /\ reviewForm.contentError = "Review must be at least 10 characters long")

\* C17 amended: such a submission does not call onSubmit and shows an error
\* about the content: "Please enter a review" when the content is empty or blank,
\* "Review must be at least 10 characters long" otherwise.
C17_ShortContent ==
  (Submitted /\ Len(reviewForm.content) < 10)
    => /\ reviewForm.onSubmit = <<>>
       /\ reviewForm.contentError =
            IF \A i \in 1..Len(reviewForm.content) : reviewForm.content[i] = " "
            THEN "Please enter a review"
            ELSE "Review must be at least 10 characters long"

\* C17 witness: a rating and nine letters, so that nothing but the length stops
\* the submission
C17_Witness ==
  /\ Submitted
  /\ reviewForm.rating = 5
  /\ reviewForm.content = Letters(9)
  /\ reviewForm.contentError = "Review must be at least 10 characters long"
  /\ reviewForm.ratingError = NoMessage
  /\ reviewForm.onSubmit = <<>>

\* the value of a query parameter of a url: the piece after name and =
HasParam(url, name) ==
  \E i \in 2..(Len(url) - 2) : url[i - 1] \in {"?", "&"} /\ url[i] = name /\ url[i + 1] = "="
QueryParam(url, name) ==
  LET at == {i \in 2..(Len(url) - 2) :
               url[i - 1] \in {"?", "&"} /\ url[i] = name /\ url[i + 1] = "="}
  IN url[(CHOOSE i \in at : \A j \in at : i <= j) + 2]
ListKinds ==
  {"BooksPage", "BookDetailPage", "ProfilePage", "UserReviewsPage", "ReadingListPage",
   "AdminUsersPage", "AdminBooksPage", "AdminReviewsPage"}
LastRequest == listPage.requests[Len(listPage.requests)]

\* C18: the list request a list page sends for page N with page size P carries
\* skip = (N - 1) * P and take = P; every list page but the reading list, whose
\* request waits for the current user, sends one.
C18_SkipTake ==
  (listPage.kind \in ListKinds /\ ~listPage.page.nan)
    => /\ listPage.requests # <<>>
       /\ (listPage.kind # "ReadingListPage" => HasParam(LastRequest.url, "skip"))
       /\ HasParam(LastRequest.url, "skip")
            => /\ QueryParam(LastRequest.url, "skip")
                    = ToString((listPage.page.n - 1) * listPage.size)
               /\ QueryParam(LastRequest.url, "take") = ToString(listPage.size)
               /\ listPage.size > 0

\* C18 witness: page 3 of a search whose text holds "&skip=9"
C18_Witness ==
  /\ listPage.kind = "BooksPage"
  /\ listPage.page = Num(3)
  /\ LastRequest.url[1] = "/books/search"
  /\ "%26" \in {LastRequest.url[i] : i \in 1..Len(LastRequest.url)}
  /\ QueryParam(LastRequest.url, "skip") = "24"
  /\ QueryParam(LastRequest.url, "take") = "12"

\* C19: with the favorites loaded, the favorites page renders for page N
\* exactly min(10, total - (N - 1) * 10) items.
C19_FavoritesRendered ==
  (favoritesPage.op # "none")
    => LET total == Len(favoritesPage.data)
           skip == (favoritesPage.page - 1) * 10
       IN FavoritesPage_rendered(favoritesPage.page, favoritesPage.data)
            = IF total - skip < 10 THEN total - skip ELSE 10

\* the functions of UserService that ask for the current user first
AsksCurrentUser ==
  {"ReadingListPage", "UserService.updateProfile", "UserService.deleteAccount",
   "UserService.addToReadingList", "UserService.removeFromReadingList"}

Reported(name) == {i \in 1..Len(collector.reported) : collector.reported[i].name = name}
LatestReported(name) ==
  collector.reported[CHOOSE i \in Reported(name) : \A j \in Reported(name) : j <= i]

\* C21: getCollectedMetrics holds exactly the names that were reported, each
\* with the metric of that name reported last.
C21_LatestPerName ==
  /\ DOMAIN getCollectedMetrics = {collector.reported[i].name : i \in 1..Len(collector.reported)}
  /\ \A n \in DOMAIN getCollectedMetrics : getCollectedMetrics[n] = LatestReported(n)

\* C21 witness: LCP was reported twice with different values, and FID once
C21_Witness ==
  /\ Len(collector.reported) = 3
  /\ collector.reported[1].name = "LCP"
  /\ collector.reported[2].name = "FID"
  /\ collector.reported[3].name = "LCP"
  /\ collector.reported[1].value # collector.reported[3].value
  /\ getCollectedMetrics["LCP"].id = 3
  /\ DOMAIN getCollectedMetrics = {"LCP", "FID"}

\* C22: checkPerformanceTarget returns true exactly when LCP was reported and
\* the value reported last is below 2000.
C22_TargetMet ==
  checkPerformanceTarget <=> (Reported("LCP") # {} /\ LatestReported("LCP").value < 2000)

\* C22 witness: LCP 2500, then LCP 1500: the target is met
C22_Witness ==
  /\ Len(collector.reported) = 2
  /\ collector.reported[1] = [name |-> "LCP", value |-> 2500, id |-> 1]
  /\ collector.reported[2] = [name |-> "LCP", value |-> 1500, id |-> 2]
  /\ checkPerformanceTarget

\* a metric is missing or above its threshold
Exceeds(name, threshold) == Reported(name) = {} \/ LatestReported(name).value > threshold

\* C23: getPerformanceRecommendations returns, in the order LCP, CLS, FID, one
\* recommendation for each of them that is missing or above 2000, 0.1, 100,
\* and nothing else.
C23_Recommendations ==
  LET got == getPerformanceRecommendations
      about(text) == {i \in 1..Len(got) : got[i] = text}
      lcp == about("Optimize Largest Contentful Paint (LCP)")
      cls == about("Improve Cumulative Layout Shift (CLS)")
      fid == about("Reduce First Input Delay (FID)")
  IN /\ Cardinality(lcp) = IF Exceeds("LCP", 2000) THEN 1 ELSE 0
     /\ Cardinality(cls) = IF Exceeds("CLS", 10) THEN 1 ELSE 0
     /\ Cardinality(fid) = IF Exceeds("FID", 100) THEN 1 ELSE 0
     /\ lcp \cup cls \cup fid = 1..Len(got)
     /\ \A i \in lcp, j \in cls \cup fid : i < j
     /\ \A i \in cls, j \in fid : i < j

\* C23 witness: the three metrics were reported at their thresholds or below;
\* nothing is recommended
C23_Witness ==
  /\ Len(collector.reported) = 3
  /\ {collector.reported[i].name : i \in 1..3} = {"LCP", "CLS", "FID"}
  /\ LatestReported("CLS").value = 10
  /\ getPerformanceRecommendations = <<>>

\* C24: after a caller set the LCP entry of the record it got from
\* getCollectedMetrics to a value of 2500, checkPerformanceTarget returns false
\* and the recommendation of LCP is returned.
C24_ReplacedEntryCounts ==
  (/\ collector.op = "replaceEntry"
   /\ "LCP" \in DOMAIN collector.held
   /\ collector.held["LCP"] = [name |-> "LCP", value |-> 2500, id |-> 0])
    => /\ ~checkPerformanceTarget
       /\ getPerformanceRecommendations # <<>>
       /\ getPerformanceRecommendations[1] = "Optimize Largest Contentful Paint (LCP)"

C26_FailedAuthKeepsSession ==
  [][(last'.op \in {"loginResponse", "registerResponse"} /\ ~last'.ok)
       => /\ state'.user = state.user
          /\ state'.token = state.token
          /\ state'.isAuthenticated = state.isAuthenticated
          /\ storage' = storage
          /\ ~state'.isLoading
          /\ last'.val # NoRejection]_vars

\* C26 witness: a login answered 401 failed over a stored token
C26_Witness ==
  /\ last.op = "loginResponse"
  /\ ~last.ok
  /\ last.failure.status = 401
  /\ last.val.message = InvalidCredentials
  /\ storage.token # Null
  /\ ~state.isAuthenticated
  /\ ~state.isLoading

\* C27: while the auth state is anonymous and not loading, localStorage holds
\* no token and no call is sent with an Authorization header.
C27_AnonymousNoToken ==
  (~state.isAuthenticated /\ ~state.isLoading)
    => /\ storage.token = Null
       /\ last.op = "send" => last.hdr = NoHeader

\* C28: the skip of every request of the books page is a multiple 12 * k of
\* the page size with k >= 0.
C28_SkipMultiple ==
  (listPage.kind = "BooksPage")
    => /\ HasParam(LastRequest.url, "skip")
       /\ QueryParam(LastRequest.url, "skip") \in {ToString(12 * k) : k \in 0..9}

\* C29: checkPerformanceTarget returns true exactly when
\* getPerformanceRecommendations returns no recommendation of LCP.
C29_TargetAgrees ==
  checkPerformanceTarget
    <=> (\A i \in 1..Len(getPerformanceRecommendations) :
           getPerformanceRecommendations[i] # "Optimize Largest Contentful Paint (LCP)")

\* C30: after Edit was chosen for a listed user the modal is open and the form
\* holds the id, display name, email and role of that user.
C30_EditOpensModal ==
  (usersPage.op = "handleEditUser")
    => /\ usersPage.isModalOpen
       /\ usersPage.formData \in ListedUsers
       /\ usersPage.formData.id = usersPage.user

====
